---- MODULE Spec2Model ----
\* Cache-aside lookup of app/main.py (fetch_fish) against a key-value store
\* with GET / SET / EXPIRE and an upstream HTTP API, with concurrent lookups.
EXTENDS Integers, Sequences, FiniteSets, TLC

\* ---------------------------------------------------------------- bounds
NumLookups == 2      \* concurrent request tasks

\* ------------------------------------------------------ program constants
TTL == 86400                 \* rd.expire(university, 86400)
StatusError == 500           \* HTTPException(status_code=500, ...)
StatusOK == 200              \* implicit success status of a returned value

CacheDecodeDetail == "Error decoding cached data"
UpstreamDecodeDetail == "Error decoding data from FishWatch API"
\* an exception fetch_fish does not catch: the framework's generic fault
UnhandledDetail == "Internal Server Error"
Greeting == "hello worlds"

NoTTL == 0 - 1               \* a key without expiration (Redis TTL reply -1)

Procs == 1..NumLookups

\* ------------------------------------------------------------ JSON values
\* Texts are sequences of one-character tokens; "#" stands for a byte that is
\* not valid UTF-8. Values are tagged records of one shape.
Digits == {"0", "1"}
BadByte == "#"

JNum(n) == [kind |-> "num", n |-> n, items |-> <<>>]
JArr(s) == [kind |-> "arr", n |-> 0, items |-> s]
NoValue == [kind |-> "none", n |-> 0, items |-> <<>>]

ParseFail == [ok |-> FALSE, val |-> NoValue, next |-> 0]
ParseOk(v, i) == [ok |-> TRUE, val |-> v, next |-> i]

DigitVal(c) == IF c = "1" THEN 1 ELSE 0

RECURSIVE SkipWs(_, _)
SkipWs(s, i) == IF i <= Len(s) /\ s[i] = " " THEN SkipWs(s, i + 1) ELSE i

\* digits after a leading non-zero digit, accumulated in base ten
RECURSIVE ParseDigits(_, _, _)
ParseDigits(s, i, acc) ==
    IF i <= Len(s) /\ s[i] \in Digits
    THEN ParseDigits(s, i + 1, 10 * acc + DigitVal(s[i]))
    ELSE ParseOk(JNum(acc), i)

\* JSON number: "0" alone, or a non-zero digit followed by digits
ParseNumber(s, i) ==
    IF s[i] = "0" THEN ParseOk(JNum(0), i + 1)
    ELSE ParseDigits(s, i + 1, DigitVal(s[i]))

RECURSIVE ParseValue(_, _)
RECURSIVE ParseElems(_, _, _)

\* after "[": an empty array, or elements
ParseArray(s, i) ==
    LET j == SkipWs(s, i) IN
    IF j <= Len(s) /\ s[j] = "]" THEN ParseOk(JArr(<<>>), j + 1)
    ELSE ParseElems(s, j, <<>>)

ParseElems(s, i, acc) ==
    LET r == ParseValue(s, SkipWs(s, i)) IN
    IF ~r.ok THEN ParseFail
    ELSE LET j == SkipWs(s, r.next) IN
         IF j > Len(s) THEN ParseFail
         ELSE IF s[j] = "," THEN ParseElems(s, j + 1, Append(acc, r.val))
         ELSE IF s[j] = "]" THEN ParseOk(JArr(Append(acc, r.val)), j + 1)
         ELSE ParseFail

ParseValue(s, i) ==
    IF i > Len(s) THEN ParseFail
    ELSE IF s[i] = "[" THEN ParseArray(s, i + 1)
    ELSE IF s[i] \in Digits THEN ParseNumber(s, i)
    ELSE ParseFail

Decoded(v) == [ok |-> TRUE, val |-> v, err |-> "none"]
DecodeError(e) == [ok |-> FALSE, val |-> NoValue, err |-> e]

\* json.loads on the bytes rd.get returns: the bytes are decoded as UTF-8
\* first (UnicodeDecodeError), then parsed as one JSON document
\* (json.JSONDecodeError on anything else, trailing text included).
loads(s) ==
    IF \E i \in 1..Len(s) : s[i] = BadByte THEN DecodeError("UnicodeDecodeError")
    ELSE LET r == ParseValue(s, SkipWs(s, 1)) IN
         IF r.ok /\ SkipWs(s, r.next) > Len(s) THEN Decoded(r.val)
         ELSE DecodeError("JSONDecodeError")

\* (json.loads(data.content) in place of data.json())
responseJsonOfBytes(body) == loads(body)

\* Response.json(): the body is decoded with replacement characters, so an
\* invalid byte is a JSON syntax error, never a UnicodeDecodeError.
responseJson(body) ==
    IF loads(body).ok THEN loads(body) ELSE DecodeError("JSONDecodeError")

RECURSIVE NatText(_)
NatText(n) ==
    IF n < 10 THEN <<IF n = 1 THEN "1" ELSE "0">>
    ELSE NatText(n \div 10) \o NatText(n % 10)

\* json.dumps with the default separators (", " between the items)
RECURSIVE dumps(_)
RECURSIVE DumpItems(_, _)
RECURSIVE DumpItemsUnseparated(_, _)

\* (the items written one after the other with no separator)
DumpItemsUnseparated(items, i) ==
    IF i > Len(items) THEN <<>>
    ELSE dumps(items[i]) \o DumpItemsUnseparated(items, i + 1)

DumpItems(items, i) ==
    IF i > Len(items) THEN <<>>
    ELSE (IF i > 1 THEN <<",", " ">> ELSE <<>>) \o dumps(items[i])
         \o DumpItems(items, i + 1)

dumps(v) ==
    IF v.kind = "num" THEN NatText(v.n)
    ELSE <<"[">> \o DumpItems(v.items, 1) \o <<"]">>

\* ------------------------------------------------------------------ keys
\* Lookup keys are path parameters: free-form strings, as token sequences.
Keys == { <<"u", "k">>, <<"a", "&", "b">> }

RECURSIVE UpTo(_, _)
UpTo(s, stops) ==
    IF s = <<>> \/ Head(s) \in stops THEN <<>>
    ELSE <<Head(s)>> \o UpTo(Tail(s), stops)

\* The value the upstream receives as its `country` query parameter for the
\* URL f"...search?country={university}": the key is pasted unescaped, so the
\* parameter ends at the first "&" or "#".
CountryParam(university) == UpTo(university, {"&", "#"})

\* ----------------------------------------------------------------- data
\* What rd.get returns: None, or the stored bytes.
Nil == [present |-> FALSE, bytes |-> <<>>]
Some(b) == [present |-> TRUE, bytes |-> b]

\* (the test reversed: `if not cache:`)
TruthyReversed(c) == ~(c.present /\ Len(c.bytes) > 0)

\* `if cache:` -- None and the empty bytes object are both false
Truthy(c) == c.present /\ Len(c.bytes) > 0

Absent == [present |-> FALSE, bytes |-> <<>>, exp |-> NoTTL]
Entry(b, e) == [present |-> TRUE, bytes |-> b, exp |-> e]

\* entries some other writer may have left in the store: empty bytes, text
\* that is no JSON, bytes that are no UTF-8, JSON in a non-canonical layout
InitEntries ==
    { Entry(<<>>, NoTTL), Entry(<<"x">>, TTL), Entry(<<BadByte>>, NoTTL),
      Entry(<<"[", " ", "1", "0", "]">>, TTL) }

InitKey == <<"u", "k">>

\* answers of the upstream: a status code and a body
Response(c, st, b) == [country |-> c, status |-> st, body |-> b]
Answers ==
    { Response(<<>>, 200, <<"[", "1", ",", "0", "]">>),
      Response(<<>>, 404, <<"[", " ", "]">>),
      Response(<<>>, 200, <<BadByte>>),
      Response(<<>>, 404, <<"x">>) }

\* history of a store entry: how long ago and by which lookup its value was
\* SET, the
\* upstream response it came from, whether that lookup has returned and what
\* it returned
NoHistory ==
    [byLookup |-> FALSE, age |-> 0, writer |-> 0, country |-> <<>>,
     body |-> <<>>, done |-> FALSE, ret |-> NoValue]

NoResponse == [country |-> <<>>, status |-> 0, body |-> <<>>]
JStr(t) == [kind |-> "str", n |-> 0, items |-> <<t>>]

\* calls one request has made so far
NoCalls == [gets |-> 0, upstream |-> 0, sets |-> 0, expires |-> 0]

\* a response sent to a client: its request, what its store read and its
\* upstream call returned, the calls it made, and the HTTP status, detail and
\* body
NoResult ==
    [university |-> <<>>, cache |-> Nil, data |-> NoResponse, calls |-> NoCalls,
     status |-> 0, detail |-> "", body |-> NoValue]
Success(v) == [NoResult EXCEPT !.status = StatusOK, !.body = v]
HTTPException(d) == [NoResult EXCEPT !.status = StatusError, !.detail = d]

VARIABLES
    rd,           \* the key-value store: key -> entry
    hist,         \* history of each entry
    pc,           \* where each request task stands
    university,   \* the path parameter of each lookup
    cache,        \* what rd.get returned
    data,         \* the upstream response
    json_data,    \* the decoded upstream body
    calls,        \* the calls the request has made
    result        \* the response sent last

vars == <<rd, hist, pc, university, cache, data, json_data,
          calls, result>>

TaskInit ==
    /\ pc = [p \in Procs |-> "idle"]
    /\ university = [p \in Procs |-> <<>>]
    /\ cache = [p \in Procs |-> Nil]
    /\ data = [p \in Procs |-> NoResponse]
    /\ json_data = [p \in Procs |-> NoValue]
    /\ calls = [p \in Procs |-> NoCalls]
    /\ result = NoResult

\* the store is external: it starts empty or holding one entry of any content
\* under one key
Init ==
    /\ \/ rd = [k \in Keys |-> Absent]
       \/ \E e \in InitEntries :
            rd = [k \in Keys |-> IF k = InitKey THEN e ELSE Absent]
    /\ hist = [k \in Keys |-> NoHistory]
    /\ TaskInit

\* the store starts empty and lookups are its only writers
InitEmpty ==
    /\ rd = [k \in Keys |-> Absent]
    /\ hist = [k \in Keys |-> NoHistory]
    /\ TaskInit

\* ----------------------------------------------------------- store calls
\* GET key
rdGet(k) == IF rd[k].present THEN Some(rd[k].bytes) ELSE Nil

\* (a SET that appends to the value already under the key)
rdSetAppending(k, b) ==
    [rd EXCEPT ![k] =
        Entry((IF rd[k].present THEN rd[k].bytes ELSE <<>>) \o b, NoTTL)]

\* (a SET that writes under one fixed key whatever key it is given)
rdSetFixedKey(k, b) == [rd EXCEPT ![InitKey] = Entry(b, NoTTL)]

\* SET key value: replaces the value and discards any expiration of the key
rdSet(k, b) == [rd EXCEPT ![k] = Entry(b, NoTTL)]

\* EXPIRE key seconds: sets the time to live of an existing key, else does
\* nothing
rdExpire(k, seconds) ==
    IF rd[k].present THEN [rd EXCEPT ![k].exp = seconds] ELSE rd

\* TTL eviction: an entry is gone once d seconds use up its time to live
Expired(e, d) == e.present /\ e.exp # NoTTL /\ e.exp <= d

\* ------------------------------------------------------------- fetch_fish
\* the request of task p ends with response r: its locals are gone
Respond(p, k, c, d, n, r) ==
    /\ result' = [r EXCEPT !.university = k, !.cache = c, !.data = d,
                           !.calls = n]
    /\ pc' = [pc EXCEPT ![p] = "idle"]
    /\ university' = [university EXCEPT ![p] = <<>>]
    /\ cache' = [cache EXCEPT ![p] = Nil]
    /\ data' = [data EXCEPT ![p] = NoResponse]
    /\ json_data' = [json_data EXCEPT ![p] = NoValue]
    /\ calls' = [calls EXCEPT ![p] = NoCalls]

\* lines 19-24: the response of a cache hit
CacheHit(c) ==
    LET r == loads(c.bytes) IN
    IF r.ok THEN Success(r.val)
    ELSE IF r.err = "JSONDecodeError" THEN HTTPException(CacheDecodeDetail)
    ELSE HTTPException(UnhandledDetail)

\* (a lookup that deletes the entry it could not decode)
GetPurging(p, k) ==
    /\ pc[p] = "idle"
    /\ LET c == rdGet(k)
           n == [NoCalls EXCEPT !.gets = 1]
       IN IF Truthy(c)
          THEN /\ Respond(p, k, c, NoResponse, n, CacheHit(c))
               /\ rd' = IF CacheHit(c).detail = CacheDecodeDetail
                        THEN [rd EXCEPT ![k] = Absent] ELSE rd
               /\ hist' = hist
          ELSE /\ pc' = [pc EXCEPT ![p] = "L27"]
               /\ university' = [university EXCEPT ![p] = k]
               /\ cache' = [cache EXCEPT ![p] = c]
               /\ calls' = [calls EXCEPT ![p] = n]
               /\ UNCHANGED <<rd, hist, data, json_data, result>>

\* lines 17-26: rd.get, then the hit path, or on to the upstream call
Get(p, k) ==
    /\ pc[p] = "idle"
    /\ LET c == rdGet(k)
           n == [NoCalls EXCEPT !.gets = 1]
       IN IF Truthy(c)
          THEN /\ Respond(p, k, c, NoResponse, n, CacheHit(c))
               /\ hist' = hist
          ELSE /\ pc' = [pc EXCEPT ![p] = "L27"]
               /\ university' = [university EXCEPT ![p] = k]
               /\ cache' = [cache EXCEPT ![p] = c]
               /\ calls' = [calls EXCEPT ![p] = n]
               /\ UNCHANGED <<hist, data, json_data, result>>
    /\ UNCHANGED rd

\* lines 33-34: `except json.JSONDecodeError` catches that error and no other
UpstreamError(r) ==
    IF r.err = "JSONDecodeError" THEN HTTPException(UpstreamDecodeDetail)
    ELSE HTTPException(UnhandledDetail)

\* (single flight: a lookup waits while another lookup of its key is between
\* its SET and its EXPIRE)
FetchSingleFlight(p) ==
    /\ pc[p] = "L27"
    /\ \A q \in Procs \ {p} :
          ~(pc[q] = "L31" /\ university[q] = university[p])
    /\ \E a \in Answers :
         LET k == university[p]
             d == Response(CountryParam(k), a.status, a.body)
             r == responseJson(a.body)
             n == [calls[p] EXCEPT !.upstream = @ + 1]
         IN IF r.ok
            THEN /\ data' = [data EXCEPT ![p] = d]
                 /\ json_data' = [json_data EXCEPT ![p] = r.val]
                 /\ rd' = rdSet(k, dumps(r.val))
                 /\ hist' = [hist EXCEPT ![k] =
                      [NoHistory EXCEPT !.byLookup = TRUE, !.writer = p,
                         !.country = d.country, !.body = d.body]]
                 /\ calls' = [calls EXCEPT ![p] = [n EXCEPT !.sets = @ + 1]]
                 /\ pc' = [pc EXCEPT ![p] = "L31"]
                 /\ UNCHANGED <<university, cache, result>>
            ELSE /\ Respond(p, k, cache[p], d, n, UpstreamError(r))
                 /\ UNCHANGED <<rd, hist>>

\* (a store connection shared under a lock: a lookup does not go on while
\* another lookup is between its SET and its EXPIRE)
FetchAfterOthers(p) ==
    /\ pc[p] = "L27"
    /\ \A q \in Procs \ {p} : pc[q] # "L31"
    /\ \E a \in Answers :
         LET k == university[p]
             d == Response(CountryParam(k), a.status, a.body)
             r == responseJson(a.body)
             n == [calls[p] EXCEPT !.upstream = @ + 1]
         IN IF r.ok
            THEN /\ data' = [data EXCEPT ![p] = d]
                 /\ json_data' = [json_data EXCEPT ![p] = r.val]
                 /\ rd' = rdSet(k, dumps(r.val))
                 /\ hist' = [hist EXCEPT ![k] =
                      [NoHistory EXCEPT !.byLookup = TRUE, !.writer = p,
                         !.country = d.country, !.body = d.body]]
                 /\ calls' = [calls EXCEPT ![p] = [n EXCEPT !.sets = @ + 1]]
                 /\ pc' = [pc EXCEPT ![p] = "L31"]
                 /\ UNCHANGED <<university, cache, result>>
            ELSE /\ Respond(p, k, cache[p], d, n, UpstreamError(r))
                 /\ UNCHANGED <<rd, hist>>

\* (a lookup that checks the upstream status before decoding, as
\* data.raise_for_status() would: a non-200 answer ends the request with an
\* error that is not caught)
FetchCheckingStatus(p) ==
    /\ pc[p] = "L27"
    /\ \E a \in Answers :
         LET k == university[p]
             d == Response(CountryParam(k), a.status, a.body)
             r == responseJson(a.body)
             n == [calls[p] EXCEPT !.upstream = @ + 1]
         IN IF r.ok /\ a.status = 200
            THEN /\ data' = [data EXCEPT ![p] = d]
                 /\ json_data' = [json_data EXCEPT ![p] = r.val]
                 /\ rd' = rdSet(k, dumps(r.val))
                 /\ hist' = [hist EXCEPT ![k] =
                      [NoHistory EXCEPT !.byLookup = TRUE, !.writer = p,
                         !.country = d.country, !.body = d.body]]
                 /\ calls' = [calls EXCEPT ![p] = [n EXCEPT !.sets = @ + 1]]
                 /\ pc' = [pc EXCEPT ![p] = "L31"]
                 /\ UNCHANGED <<university, cache, result>>
            ELSE /\ Respond(p, k, cache[p], d, n, UpstreamError(r))
                 /\ UNCHANGED <<rd, hist>>

\* lines 27-30 and 33-34: requests.get(f"...search?country={university}"),
\* data.json(), then rd.set(university, json.dumps(json_data)), or the
\* upstream decode error. The upstream call and the decoding touch nothing but
\* the task's own locals, so they are taken in one step with the SET.
Fetch(p) ==
    /\ pc[p] = "L27"
    /\ \E a \in Answers :
         LET k == university[p]
             d == Response(CountryParam(k), a.status, a.body)
             r == responseJson(a.body)
             n == [calls[p] EXCEPT !.upstream = @ + 1]
         IN IF r.ok
            THEN /\ data' = [data EXCEPT ![p] = d]
                 /\ json_data' = [json_data EXCEPT ![p] = r.val]
                 /\ rd' = rdSet(k, dumps(r.val))
                 /\ hist' = [hist EXCEPT ![k] =
                      [NoHistory EXCEPT !.byLookup = TRUE, !.writer = p,
                         !.country = d.country, !.body = d.body]]
                 /\ calls' = [calls EXCEPT ![p] = [n EXCEPT !.sets = @ + 1]]
                 /\ pc' = [pc EXCEPT ![p] = "L31"]
                 /\ UNCHANGED <<university, cache, result>>
            ELSE /\ Respond(p, k, cache[p], d, n, UpstreamError(r))
                 /\ UNCHANGED <<rd, hist>>

\* lines 31-32: rd.expire(university, 86400), then return json_data
Expire(p) ==
    /\ pc[p] = "L31"
    /\ LET k == university[p] IN
       /\ rd' = rdExpire(k, TTL)
       /\ hist' = [hist EXCEPT ![k] =
            IF rd[k].present /\ @.writer = p
            THEN [@ EXCEPT !.done = TRUE, !.writer = 0, !.ret = json_data[p]]
            ELSE @]
       /\ Respond(p, k, cache[p], data[p],
                  [calls[p] EXCEPT !.expires = @ + 1], Success(json_data[p]))

\* lines 11-13: the root operation
Home(p) ==
    /\ pc[p] = "idle"
    /\ Respond(p, <<>>, Nil, NoResponse, NoCalls, Success(JStr(Greeting)))
    /\ UNCHANGED <<rd, hist>>

\* time passes in the store; entries whose deadline is reached are evicted
\* (the age of a value is counted up to AgeCap and no further)
Deltas == {TTL - 1, TTL}
AgeCap == TTL
Older(a, d) == IF a + d > AgeCap THEN AgeCap ELSE a + d

Advance(d) ==
    /\ rd' = [k \in Keys |->
                IF Expired(rd[k], d) THEN Absent
                ELSE IF rd[k].present /\ rd[k].exp # NoTTL
                THEN [rd[k] EXCEPT !.exp = @ - d]
                ELSE rd[k]]
    /\ hist' = [k \in Keys |->
                  IF Expired(rd[k], d) THEN NoHistory
                  ELSE IF hist[k].byLookup
                  THEN [hist[k] EXCEPT !.age = Older(@, d)]
                  ELSE hist[k]]
    /\ UNCHANGED <<pc, university, cache, data, json_data, calls, result>>

Next ==
    \/ \E p \in Procs, k \in Keys : Get(p, k)
    \/ \E p \in Procs : Fetch(p)
    \/ \E p \in Procs : Expire(p)
    \/ \E p \in Procs : Home(p)
    \/ \E d \in Deltas : Advance(d)

Spec == Init /\ [][Next]_vars

\* ------------------------------------------------------------------ steps
\* the step in which task p reads the store for key k: it goes on to the
\* upstream call, or the request ends in this step with a response
GetStep(p, k) ==
    /\ pc[p] = "idle"
    /\ \/ pc'[p] = "L27" /\ university'[p] = k
       \/ /\ pc' = pc /\ rd' = rd /\ hist' = hist /\ result' # result
          /\ result'.university = k /\ result'.calls.gets = 1

\* the step of task p from line 27: upstream call, decoding and SET
FetchStep(p) == pc[p] = "L27" /\ pc'[p] # "L27"

\* the step of task p from line 31: EXPIRE and return
ExpireStep(p) == pc[p] = "L31" /\ pc'[p] = "idle"

SpecEmpty == InitEmpty /\ [][Next]_vars

\* ----------------------------------------------------------------- claims
\* C1 -- cache hit: when the value stored under a key decodes as JSON, the
\* lookup of that key ends in its store read with a success status and exactly
\* the decoded stored value, and it has made no upstream call.
C1_CacheHit ==
    [][\A p \in Procs, k \in Keys :
          (GetStep(p, k) /\ rd[k].present /\ loads(rd[k].bytes).ok)
          => /\ pc'[p] = "idle"
             /\ result'.status = StatusOK
             /\ result'.body = loads(rd[k].bytes).val
             /\ result'.calls.upstream = 0]_vars

\* a lookup has been answered from an entry that is still in the store and is
\* not written the way json.dumps writes it
C1_Witness ==
    /\ result.status = StatusOK
    /\ result.calls.gets = 1 /\ result.calls.upstream = 0
    /\ result.university \in Keys
    /\ rd[result.university].present
    /\ result.body = loads(rd[result.university].bytes).val
    /\ result.cache.bytes # dumps(result.body)

\* C3 -- corrupted cache: when the value stored under a key is present and
\* does not decode as JSON, the lookup fails with HTTP 500 and the detail
\* "Error decoding cached data", and makes no upstream call.
C3_CorruptedCache ==
    [][\A p \in Procs, k \in Keys :
          (GetStep(p, k) /\ rd[k].present /\ ~loads(rd[k].bytes).ok)
          => /\ pc'[p] = "idle"
             /\ result'.status = StatusError
             /\ result'.detail = CacheDecodeDetail
             /\ result'.calls.upstream = 0]_vars

\* C4 -- corrupted upstream: a lookup that read its key as absent and whose
\* upstream body does not decode fails with HTTP 500 and the detail "Error
\* decoding data from FishWatch API", has made no SET and no EXPIRE, and
\* leaves the store as it was; a lookup goes on to the SET only with a body
\* that decodes.
C4_CorruptedUpstream ==
    [][\A p \in Procs :
          (FetchStep(p) /\ cache[p] = Nil)
          => IF pc'[p] = "idle"
             THEN /\ ~loads(result'.data.body).ok
                  /\ result'.status = StatusError
                  /\ result'.detail = UpstreamDecodeDetail
                  /\ result'.calls.sets = 0 /\ result'.calls.expires = 0
                  /\ rd' = rd
             ELSE loads(data'[p].body).ok]_vars

\* a lookup of an absent key has failed on an upstream body that is no JSON
C4_Witness ==
    /\ result.detail = UpstreamDecodeDetail
    /\ result.cache = Nil
    /\ result.calls.upstream = 1
    /\ ~loads(result.data.body).ok

\* C2 -- cache miss populates the cache: a lookup that read its key as absent
\* makes exactly one upstream call, with the country parameter equal to the
\* key; when the body decodes it returns the decoded value, and when it
\* completes the store holds the serialization of that value under the key
\* with an expiration of 86,400 seconds.
C2_MissPopulates ==
    [][\A p \in Procs :
          /\ (FetchStep(p) /\ cache[p] = Nil /\ pc'[p] = "L31")
             => /\ calls'[p].upstream = 1
                /\ data'[p].country = university[p]
                /\ json_data'[p] = loads(data'[p].body).val
          /\ (ExpireStep(p) /\ cache[p] = Nil)
             => /\ result'.calls.upstream = 1
                /\ result'.status = StatusOK
                /\ result'.body = json_data[p]
                /\ rd'[university[p]] = Entry(dumps(json_data[p]), TTL)]_vars

\* C5 -- every entry written by a lookup has an expiration, and it lies 86,400
\* seconds after the write of its current value, in every reachable state.
C5_FixedTTL ==
    \A k \in Keys :
        (rd[k].present /\ hist[k].byLookup)
        => /\ rd[k].exp # NoTTL
           /\ hist[k].age + rd[k].exp = TTL

\* C6 -- expiration boundary: an entry written by a lookup stays in the store
\* while less than 86,400 seconds have passed since its write, and is gone
\* from the store once 86,400 seconds have passed, no other write intervening.
C6_ExpirationBoundary ==
    [][\A k \in Keys, d \in Deltas :
          (Advance(d) /\ rd[k].present /\ hist[k].byLookup)
          => IF hist[k].age + d < TTL
             THEN rd'[k].present /\ rd'[k].bytes = rd[k].bytes
             ELSE ~rd'[k].present]_vars

\* C7 -- idempotent re-read: once the lookup that SET the value now stored
\* under a key has returned, and while that value is in the store, a lookup
\* of the key is answered in its store read with a success status and the
\* value the first lookup returned, and makes no upstream call.
C7_IdempotentReread ==
    [][\A p \in Procs, k \in Keys :
          (GetStep(p, k) /\ rd[k].present /\ hist[k].done)
          => /\ pc'[p] = "idle"
             /\ result'.status = StatusOK
             /\ result'.body = hist[k].ret
             /\ result'.calls.upstream = 0
             /\ result'.calls.sets = 0]_vars

\* a second lookup has been answered with the value the first one returned
C7_Witness ==
    /\ result.status = StatusOK
    /\ result.calls.gets = 1 /\ result.calls.upstream = 0
    /\ result.university \in Keys
    /\ hist[result.university].done
    /\ rd[result.university].present
    /\ result.body = hist[result.university].ret
    /\ Len(result.body.items) = 2

\* C8 -- provenance: from an empty store, every stored value is the
\* serialization of an upstream body that decoded and was fetched with the
\* country parameter equal to its key; every stored value decodes as JSON and
\* no lookup fails with "Error decoding cached data".
C8_Provenance ==
    /\ \A k \in Keys :
          rd[k].present
          => /\ hist[k].byLookup
             /\ hist[k].country = k
             /\ responseJson(hist[k].body).ok
             /\ rd[k].bytes = dumps(responseJson(hist[k].body).val)
             /\ loads(rd[k].bytes).ok
    /\ result.detail # CacheDecodeDetail

\* an entry on which a lookup fails with "Error decoding cached data"
Corrupted(e) ==
    e.present /\ Len(e.bytes) > 0 /\ loads(e.bytes).err = "JSONDecodeError"

\* C9 -- a lookup that fails with "Error decoding cached data" makes no
\* write, delete or expiry change: the entry stays as it is, every lookup of
\* the key fails the same way, and only TTL eviction removes the entry.
C9_CorruptedEntryStays ==
    [][\A p \in Procs, k \in Keys :
          /\ (GetStep(p, k) /\ pc'[p] = "idle"
                /\ result'.detail = CacheDecodeDetail)
             => /\ Corrupted(rd[k])
                /\ rd' = rd
                /\ result'.calls = [NoCalls EXCEPT !.gets = 1]
          /\ Corrupted(rd[k])
             => /\ GetStep(p, k)
                   => /\ pc'[p] = "idle"
                      /\ result'.status = StatusError
                      /\ result'.detail = CacheDecodeDetail
                /\ \/ rd'[k] = rd[k]
                   \/ \E d \in Deltas :
                        /\ Advance(d)
                        /\ IF Expired(rd[k], d) THEN ~rd'[k].present
                           ELSE rd'[k] = [rd[k] EXCEPT !.exp = @ - d]]_vars

\* a lookup has failed on a corrupted entry, and the entry is still there
C9_Witness ==
    /\ result.detail = CacheDecodeDetail
    /\ result.university \in Keys
    /\ Corrupted(rd[result.university])
    /\ rd[result.university].bytes = result.cache.bytes

\* C10 -- no single flight: a lookup that has read its key as absent is never
\* kept waiting by another lookup; it makes its own upstream call and, when
\* the body decodes, its own SET and its own EXPIRE of the key.
C10_NoSingleFlight ==
    /\ [](\A p \in Procs :
             /\ pc[p] = "L27" => ENABLED Fetch(p)
             /\ pc[p] = "L31" => ENABLED Expire(p))
    /\ [][\A p \in Procs :
             /\ FetchStep(p)
                => IF pc'[p] = "L31"
                   THEN /\ calls'[p] = [gets |-> 1, upstream |-> 1,
                                        sets |-> 1, expires |-> 0]
                        /\ json_data'[p] = loads(data'[p].body).val
                        /\ rd'[university[p]]
                             = Entry(dumps(json_data'[p]), NoTTL)
                   ELSE result'.calls.upstream = 1
             /\ ExpireStep(p)
                => /\ result'.calls = [gets |-> 1, upstream |-> 1,
                                       sets |-> 1, expires |-> 1]
                   /\ rd[university[p]].present
                      => rd'[university[p]].exp = TTL]_vars

\* two lookups of one key both read it as absent, and each has made its own
\* upstream call and its own SET
C10_Witness ==
    \E p \in Procs, q \in Procs :
        /\ p # q
        /\ pc[p] = "L31" /\ pc[q] = "L31"
        /\ university[p] = university[q]
        /\ cache[p] = Nil /\ cache[q] = Nil
        /\ calls[p].upstream = 1 /\ calls[q].upstream = 1
        /\ calls[p].sets = 1 /\ calls[q].sets = 1
        /\ json_data[p] # json_data[q]

\* C11 -- error layers: every failure response of a lookup is 500 with one of
\* the two details; "Error decoding cached data" comes only from a lookup
\* whose store read returned a value, "Error decoding data from FishWatch API"
\* only from a lookup whose store read returned no value and that called the
\* upstream; every other completed lookup returns 200 with a decoded value.
C11_ErrorLayers ==
    result.calls.gets = 1
    => IF result.status = StatusError
       THEN /\ result.detail \in {CacheDecodeDetail, UpstreamDecodeDetail}
            /\ result.detail = CacheDecodeDetail => result.cache.present
            /\ result.detail = UpstreamDecodeDetail
               => ~result.cache.present /\ result.calls.upstream = 1
       ELSE /\ result.status = StatusOK
            /\ result.body.kind \in {"num", "arr"}

\* C14 -- a cache hit is read-only: a lookup whose store read returned a value
\* goes no further than that read; it makes no upstream call, no SET and no
\* EXPIRE.
C14_HitReadOnly ==
    /\ \A p \in Procs : cache[p].present => pc[p] = "idle"
    /\ result.cache.present
       => /\ result.calls.upstream = 0
          /\ result.calls.sets = 0
          /\ result.calls.expires = 0

\* C13 -- the upstream status code has no effect on a miss: a lookup that read
\* its key as absent SETs and returns with 200 the decoded body whenever the
\* body decodes, and gives the upstream decode error whenever it does not,
\* whatever the status of the upstream response; its EXPIRE gives the entry
\* the 86,400 s expiration.
C13_StatusIgnored ==
    [][\A p \in Procs :
          /\ (FetchStep(p) /\ cache[p] = Nil)
             => IF pc'[p] = "L31"
                THEN /\ loads(data'[p].body).ok
                     /\ json_data'[p] = loads(data'[p].body).val
                     /\ rd'[university[p]]
                          = Entry(dumps(json_data'[p]), NoTTL)
                ELSE /\ ~loads(result'.data.body).ok
                     /\ result'.status = StatusError
                     /\ result'.detail = UpstreamDecodeDetail
          /\ (ExpireStep(p) /\ cache[p] = Nil)
             => /\ result'.status = StatusOK
                /\ result'.body = json_data[p]
                /\ result'.data = data[p]
                /\ rd[university[p]].present
                   => rd'[university[p]].exp = TTL]_vars

\* an upstream response with status 404 and a decodable body has been returned
\* with 200, and its value is in the store with the full expiration
C13_Witness ==
    /\ result.data.status = 404
    /\ result.status = StatusOK
    /\ result.university \in Keys
    /\ rd[result.university] = Entry(dumps(result.body), TTL)

\* the step in which a task answers the root operation
HomeStep(p) ==
    /\ pc[p] = "idle" /\ pc' = pc
    /\ result' # result
    /\ result'.university = <<>>

\* C16 -- frame: every step of a lookup for key k leaves the value and the
\* expiration of every other key unchanged, and the root operation returns
\* the fixed greeting with no store call and no upstream call and leaves the
\* store unchanged.
C16_Frame ==
    [][/\ \A p \in Procs, k \in Keys :
             (\/ GetStep(p, k)
              \/ (FetchStep(p) \/ ExpireStep(p)) /\ university[p] = k)
             => \A k2 \in Keys \ {k} : rd'[k2] = rd[k2]
       /\ \A p \in Procs :
             HomeStep(p)
             => /\ rd' = rd
                /\ result'.status = StatusOK
                /\ result'.body = JStr(Greeting)
                /\ result'.calls = NoCalls
                /\ result'.cache = Nil
                /\ result'.data = NoResponse]_vars

\* a lookup has written and returned its key while another key was counting
\* down its time to live, and that key still has its value and its countdown
C16_Witness ==
    \E k \in Keys, k2 \in Keys :
        /\ k # k2
        /\ rd[k2].present /\ rd[k2].exp = 1
        /\ result.university = k
        /\ result.calls.sets = 1
        /\ rd[k] = Entry(dumps(result.body), TTL)
        /\ rd[k2].bytes # rd[k].bytes

\* no lookup of key k is past its store read
Quiet(k) == \A p \in Procs : ~(pc[p] # "idle" /\ university[p] = k)

\* C15 -- concurrent lookups of one key: the value a lookup has SET is always
\* the encoding of one upstream response, held by the lookup that SET it last
\* or already returned by it; once all lookups of the key have completed and
\* the entry has not expired, the entry has an expiration and holds the value
\* returned to the lookup whose SET came last, and every later lookup before
\* expiry returns that value.
C15_LastSetWins ==
    /\ [](\A k \in Keys :
            (rd[k].present /\ hist[k].byLookup)
            => /\ rd[k].bytes = dumps(responseJson(hist[k].body).val)
               /\ IF hist[k].writer # 0
                  THEN /\ pc[hist[k].writer] = "L31"
                       /\ university[hist[k].writer] = k
                       /\ loads(rd[k].bytes) = Decoded(json_data[hist[k].writer])
                  ELSE /\ hist[k].done
                       /\ loads(rd[k].bytes) = Decoded(hist[k].ret)
               /\ Quiet(k) => hist[k].done /\ rd[k].exp # NoTTL)
    /\ [][\A p \in Procs, k \in Keys :
             (GetStep(p, k) /\ Quiet(k) /\ rd[k].present /\ hist[k].byLookup)
             => /\ pc'[p] = "idle"
                /\ result'.status = StatusOK
                /\ result'.body = hist[k].ret
                /\ rd' = rd]_vars

\* two lookups of one key ran concurrently and both have completed: the one
\* that completed last returned a value that is not the stored one, because
\* the other lookup's SET came after its own
C15_Witness ==
    \E k \in Keys :
        /\ Quiet(k)
        /\ rd[k].present /\ rd[k].exp = TTL
        /\ hist[k].done
        /\ result.university = k
        /\ result.status = StatusOK
        /\ result.calls.sets = 1
        /\ result.body # hist[k].ret
        /\ loads(rd[k].bytes) = Decoded(hist[k].ret)

\* each request is a task of its own running straight-line code, and the
\* store and the upstream answer every call: a lookup that can take its next
\* step takes it
Fairness == \A p \in Procs : WF_vars(Fetch(p)) /\ WF_vars(Expire(p))

SpecLive == InitEmpty /\ [][Next]_vars /\ Fairness

\* C12 -- completion: every lookup that has started and gone past its store
\* read eventually returns a response, whatever the other lookups do (a hit
\* returns in the step of the store read).
C12_Completion ==
    \A p \in Procs : (pc[p] # "idle") ~> (pc[p] = "idle")

\* a lookup that called the upstream has returned while another lookup of the
\* same key was between its SET and its EXPIRE
C12_Witness ==
    /\ result.calls.upstream = 1
    /\ \E q \in Procs : pc[q] = "L31" /\ university[q] = result.university

====
